---- MODULE Spec2Model ----
(***************************************************************************)
(* EnterpriseSolver (src/src/solver.py): compilation of a PackingRequest   *)
(* into a constrained quadratic model (CQM) and the feasibility filter of  *)
(* solve().                                                                *)
(*                                                                         *)
(* A CQM is kept as data: the declared variables with their domains and a  *)
(* set of labeled constraints, each  sum(coef * product of variables)      *)
(* sense rhs  with every variable moved to the left-hand side, the way     *)
(* dimod stores `lhs <= rhs`.  A sample maps every variable name to a      *)
(* value; Real variables range over the integer points of their interval.  *)
(* Item and bin indices are 0-based as in the source.                      *)
(***************************************************************************)
EXTENDS Integers, Sequences, FiniteSets, TLC

VARIABLES request, cqm, result, pc

vars == <<request, cqm, result, pc>>

\* ------------------------------------------------------------ bounds

\* largest bin dimension of the generated requests
MaxDim == 2

\* largest item weight of the generated requests
MaxWeight == 2

\* ------------------------------------------------------------ domain model

\* Optional[T]: None is the empty tuple, a value v is <<v>>
None == << >>
Some(v) == <<v>>
Val(o) == o[1]

NoRequest == [items |-> << >>, bins |-> << >>]

\* Item(dims, weight, max_stack_weight, is_fragile)
Item(l, w, h, wt, msw, fr) ==
    [length |-> l, width |-> w, height |-> h, weight |-> wt,
     max_stack_weight |-> msw, is_fragile |-> fr]

\* Bin(dims, max_weight, axle_max_weight, wheelbase,
\*     center_of_gravity_target, cog_tolerance)
Bin(l, w, h, mw, amw, wb, cog, tol) ==
    [length |-> l, width |-> w, height |-> h, max_weight |-> mw,
     axle_max_weight |-> amw, wheelbase |-> wb,
     center_of_gravity_target |-> cog, cog_tolerance |-> tol]

PackingRequest(its, bs) == [items |-> its, bins |-> bs]

NumItems(req) == Len(req.items)
NumBins(req) == Len(req.bins)
ItemIdx(req) == 0 .. (NumItems(req) - 1)
BinIdx(req) == 0 .. (NumBins(req) - 1)
ItemAt(req, i) == req.items[i + 1]
BinAt(req, j) == req.bins[j + 1]

\* combinations(range(num_items), 2)
Pairs(req) == {p \in ItemIdx(req) \X ItemIdx(req) : p[1] < p[2]}

Max2(a, b) == IF a >= b THEN a ELSE b

\* max(max(b.dims.length, b.dims.width, b.dims.height) for b in bins)
MaxBinDim(req) ==
    LET d(j) == Max2(BinAt(req, j).length,
                     Max2(BinAt(req, j).width, BinAt(req, j).height))
    IN CHOOSE m \in {d(j) : j \in BinIdx(req)} :
           \A j \in BinIdx(req) : d(j) <= m

\* M = max_bin_dim * 2
BigM(req) == MaxBinDim(req) * 2

\* ------------------------------------------------------------ variables

BinLoc(i, j) == <<"item_in_bin", i, j>>
BinOn(j) == <<"bin_used", j>>
XVar(i) == <<"x", i>>
YVar(i) == <<"y", i>>
ZVar(i) == <<"z", i>>
Selector(i, k, d) == <<"sel", i, k, d>>

Directions == 0 .. 5

Binary(name) == [name |-> name, vtype |-> "BINARY", lb |-> 0, ub |-> 1]
Real(name, lo, hi) == [name |-> name, vtype |-> "REAL", lb |-> lo, ub |-> hi]

\* the elements of a finite set of equally long integer tuples, in the order
\* of the nested `for` loops that produce them
RECURSIVE InOrder(_)
InOrder(S) ==
    IF S = {} THEN << >>
    ELSE LET m == CHOOSE a \in S : \A b \in S :
                      \/ a = b
                      \/ \E n \in 1 .. Len(a) :
                            /\ \A q \in 1 .. (n - 1) : a[q] = b[q]
                            /\ a[n] < b[n]
         IN <<m>> \o InOrder(S \ {m})

\* the variables in the order build_model declares them
Variables(req) ==
    LET D == MaxBinDim(req)
        ij == InOrder(ItemIdx(req) \X BinIdx(req))
        js == InOrder({<<j>> : j \in BinIdx(req)})
        is == InOrder({<<i>> : i \in ItemIdx(req)})
        ikd == InOrder({<<p[1], p[2], d>> : p \in Pairs(req), d \in Directions})
    IN [n \in 1 .. Len(ij) |-> Binary(BinLoc(ij[n][1], ij[n][2]))]
       \o [n \in 1 .. Len(js) |-> Binary(BinOn(js[n][1]))]
       \o [n \in 1 .. Len(is) |-> Real(XVar(is[n][1]), 0, D)]
       \o [n \in 1 .. Len(is) |-> Real(YVar(is[n][1]), 0, D)]
       \o [n \in 1 .. Len(is) |-> Real(ZVar(is[n][1]), 0, D)]
       \o [n \in 1 .. Len(ikd) |->
               Binary(Selector(ikd[n][1], ikd[n][2], ikd[n][3]))]

\* ------------------------------------------------------------ constraints

Term(c, vs) == [coef |-> c, vars |-> vs]

Constraint(label, lhs, sense, rhs) ==
    [label |-> label, lhs |-> lhs, sense |-> sense, rhs |-> rhs]

\* quicksum(self.bin_loc[i, j] ... for j in range(num_bins)) with coefficient 1
SumBinLocOverBins(req, i) ==
    [n \in 1 .. NumBins(req) |-> Term(1, <<BinLoc(i, n - 1)>>)]

\* quicksum(self.bin_loc[i, j] * items[i].weight for i in range(num_items)),
\* every coefficient multiplied by `scale`
TotalWeight(req, j, scale) ==
    [n \in 1 .. NumItems(req) |->
        Term(scale * ItemAt(req, n - 1).weight, <<BinLoc(n - 1, j)>>)]


\* AssignedOnce with `>= 1` in place of `== 1`: an item may be in several bins
AssignedAtLeastOnce(req) ==
    {Constraint(<<"item_assigned_once", i>>, SumBinLocOverBins(req, i), ">=", 1)
        : i \in ItemIdx(req)}

\* family 1: every item must be in exactly one bin
AssignedOnce(req) ==
    {Constraint(<<"item_assigned_once", i>>, SumBinLocOverBins(req, i), "==", 1)
        : i \in ItemIdx(req)}

\* family 2: bin usage link: bin_loc[i, j] - bin_on[j] <= 0
UsageLink(req) ==
    {Constraint(<<"link_item_bin", p[1], p[2]>>,
                <<Term(1, <<BinLoc(p[1], p[2])>>), Term(-1, <<BinOn(p[2])>>)>>,
                "<=", 0)
        : p \in ItemIdx(req) \X BinIdx(req)}


\* ContainAxis with the indicator inverted: pos + extent - binExtent <= M * bin_loc
ContainAxisInverted(name, i, j, posVar, extent, binExtent, M) ==
    Constraint(<<name, i, j>>,
               <<Term(1, <<posVar>>), Term(-M, <<BinLoc(i, j)>>)>>,
               "<=", binExtent - extent)

\* pos + extent - binExtent <= M * (1 - bin_loc[i, j])
ContainAxis(name, i, j, posVar, extent, binExtent, M) ==
    Constraint(<<name, i, j>>,
               <<Term(1, <<posVar>>), Term(M, <<BinLoc(i, j)>>)>>,
               "<=", M - extent + binExtent)

\* family 3: geometric boundaries (containment)
Containment(req) ==
    LET M == BigM(req)
        cs(i, j) ==
            {ContainAxis("contain_x", i, j, XVar(i),
                         ItemAt(req, i).length, BinAt(req, j).length, M),
             ContainAxis("contain_y", i, j, YVar(i),
                         ItemAt(req, i).width, BinAt(req, j).width, M),
             ContainAxis("contain_z", i, j, ZVar(i),
                         ItemAt(req, i).height, BinAt(req, j).height, M)}
    IN UNION {cs(p[1], p[2]) : p \in ItemIdx(req) \X BinIdx(req)}


\* SeparationRequired with `>= 0`: no direction has to be selected
SeparationOptional(i, k) ==
    Constraint(<<"separation_required", i, k>>,
               [n \in 1 .. 6 |-> Term(1, <<Selector(i, k, n - 1)>>)],
               ">=", 0)

\* quicksum(self.selector[(i, k, d)] for d in range(6)) >= 1
SeparationRequired(i, k) ==
    Constraint(<<"separation_required", i, k>>,
               [n \in 1 .. 6 |-> Term(1, <<Selector(i, k, n - 1)>>)],
               ">=", 1)

\* pos[a] + extent[a] - pos[b] <= M * (1 - selector[(i, k, d)])
SepAxis(name, i, k, d, posA, extentA, posB, M) ==
    Constraint(<<name, i, k>>,
               <<Term(1, <<posA>>), Term(-1, <<posB>>),
                 Term(M, <<Selector(i, k, d)>>)>>,
               "<=", M - extentA)

\* the six selector constraints of the pair (i, k)
DirectionalSeparation(req, i, k) ==
    LET M == BigM(req)
        a == ItemAt(req, i)
        b == ItemAt(req, k)
    IN {SepAxis("sep_left", i, k, 0, XVar(i), a.length, XVar(k), M),
        SepAxis("sep_right", i, k, 1, XVar(k), b.length, XVar(i), M),
        SepAxis("sep_behind", i, k, 2, YVar(i), a.width, YVar(k), M),
        SepAxis("sep_front", i, k, 3, YVar(k), b.width, YVar(i), M),
        SepAxis("sep_below", i, k, 4, ZVar(i), a.height, ZVar(k), M),
        SepAxis("sep_above", i, k, 5, ZVar(k), b.height, ZVar(i), M)}

\* family 4: non-overlap
NonOverlap(req) ==
    UNION {{SeparationRequired(p[1], p[2])}
               \cup DirectionalSeparation(req, p[1], p[2]) : p \in Pairs(req)}


\* WeightLimit summing bin_loc[i, j] without the item weights
WeightLimitCountsItems(req) ==
    {Constraint(<<"bin_weight_limit", j>>,
                [n \in 1 .. NumItems(req) |-> Term(1, <<BinLoc(n - 1, j)>>)],
                "<=", BinAt(req, j).max_weight)
        : j \in BinIdx(req)}

\* family 5: weight constraint
WeightLimit(req) ==
    {Constraint(<<"bin_weight_limit", j>>, TotalWeight(req, j, 1),
                "<=", BinAt(req, j).max_weight)
        : j \in BinIdx(req)}


\* Fragility with the two directions exchanged: a fragile item may not be above
FragilityWrongDirection(req) ==
    LET lower(i, k) ==
            IF ItemAt(req, i).is_fragile
            THEN {Constraint(<<"fragile_cannot_support", i, k>>,
                             <<Term(1, <<Selector(i, k, 5)>>)>>, "==", 0)}
            ELSE {}
        upper(i, k) ==
            IF ItemAt(req, k).is_fragile
            THEN {Constraint(<<"fragile_cannot_support", k, i>>,
                             <<Term(1, <<Selector(i, k, 4)>>)>>, "==", 0)}
            ELSE {}
    IN UNION {lower(p[1], p[2]) \cup upper(p[1], p[2]) : p \in Pairs(req)}

\* family 6, case A: fragility
Fragility(req) ==
    LET lower(i, k) ==
            IF ItemAt(req, i).is_fragile
            THEN {Constraint(<<"fragile_cannot_support", i, k>>,
                             <<Term(1, <<Selector(i, k, 4)>>)>>, "==", 0)}
            ELSE {}
        upper(i, k) ==
            IF ItemAt(req, k).is_fragile
            THEN {Constraint(<<"fragile_cannot_support", k, i>>,
                             <<Term(1, <<Selector(i, k, 5)>>)>>, "==", 0)}
            ELSE {}
    IN UNION {lower(p[1], p[2]) \cup upper(p[1], p[2]) : p \in Pairs(req)}


\* LoadBearing comparing the limit with the weight of the supporting item
LoadBearingOwnWeight(req) ==
    LET lower(i, k) ==
            IF ItemAt(req, i).max_stack_weight # None
            THEN {Constraint(<<"load_bearing_supports", i, k>>,
                             <<Term(ItemAt(req, i).weight, <<Selector(i, k, 4)>>)>>,
                             "<=", Val(ItemAt(req, i).max_stack_weight))}
            ELSE {}
        upper(i, k) ==
            IF ItemAt(req, k).max_stack_weight # None
            THEN {Constraint(<<"load_bearing_supports", k, i>>,
                             <<Term(ItemAt(req, k).weight, <<Selector(i, k, 5)>>)>>,
                             "<=", Val(ItemAt(req, k).max_stack_weight))}
            ELSE {}
    IN UNION {lower(p[1], p[2]) \cup upper(p[1], p[2]) : p \in Pairs(req)}

\* family 6, case B: load bearing
LoadBearing(req) ==
    LET lower(i, k) ==
            IF ItemAt(req, i).max_stack_weight # None
            THEN {Constraint(<<"load_bearing_supports", i, k>>,
                             <<Term(ItemAt(req, k).weight, <<Selector(i, k, 4)>>)>>,
                             "<=", Val(ItemAt(req, i).max_stack_weight))}
            ELSE {}
        upper(i, k) ==
            IF ItemAt(req, k).max_stack_weight # None
            THEN {Constraint(<<"load_bearing_supports", k, i>>,
                             <<Term(ItemAt(req, i).weight, <<Selector(i, k, 5)>>)>>,
                             "<=", Val(ItemAt(req, k).max_stack_weight))}
            ELSE {}
    IN UNION {lower(p[1], p[2]) \cup upper(p[1], p[2]) : p \in Pairs(req)}

\* Python truthiness of an Optional[float]: None and 0.0 are both false
Truthy(o) == o # None /\ Val(o) # 0

\* Python truthiness of an Optional[Tuple]: None and the empty tuple are false
TruthyTuple(o) == o # None /\ Len(Val(o)) # 0

\* Moment taken at the corner pos[i] of each item, without the half extent
MomentOfCorners(req, j, axis, scale) ==
    LET pos(i) == IF axis = "x" THEN XVar(i) ELSE YVar(i)
    IN [n \in 1 .. NumItems(req) |->
            Term(2 * scale * ItemAt(req, n - 1).weight,
                 <<BinLoc(n - 1, j), pos(n - 1)>>)]

\* 2 * scale * quicksum(bin_loc[i, j] * items[i].weight * (pos[i] + extent[i]/2)):
\* the bilinear terms bin_loc * pos, then the linear terms of the half extents
Moment(req, j, axis, scale) ==
    LET pos(i) == IF axis = "x" THEN XVar(i) ELSE YVar(i)
        ext(i) == IF axis = "x" THEN ItemAt(req, i).length ELSE ItemAt(req, i).width
    IN [n \in 1 .. NumItems(req) |->
            Term(2 * scale * ItemAt(req, n - 1).weight,
                 <<BinLoc(n - 1, j), pos(n - 1)>>)]
       \o [n \in 1 .. NumItems(req) |->
            Term(scale * ItemAt(req, n - 1).weight * ext(n - 1),
                 <<BinLoc(n - 1, j)>>)]

\* family 7, centre of gravity: moment - (target +- tol) * total_weight, both
\* sides multiplied by 2 to keep the half extents integral
CenterOfGravity(req) ==
    LET cs(j) ==
            LET b == BinAt(req, j) IN
            IF TruthyTuple(b.center_of_gravity_target) /\ Truthy(b.cog_tolerance)
            THEN LET target_x == Val(b.center_of_gravity_target)[1]
                     target_y == Val(b.center_of_gravity_target)[2]
                     tol == Val(b.cog_tolerance)
                 IN {Constraint(<<"cog_x_upper_bin", j>>,
                                Moment(req, j, "x", 1)
                                  \o TotalWeight(req, j, -2 * (target_x + tol)),
                                "<=", 0),
                     Constraint(<<"cog_x_lower_bin", j>>,
                                Moment(req, j, "x", 1)
                                  \o TotalWeight(req, j, -2 * (target_x - tol)),
                                ">=", 0),
                     Constraint(<<"cog_y_upper_bin", j>>,
                                Moment(req, j, "y", 1)
                                  \o TotalWeight(req, j, -2 * (target_y + tol)),
                                "<=", 0),
                     Constraint(<<"cog_y_lower_bin", j>>,
                                Moment(req, j, "y", 1)
                                  \o TotalWeight(req, j, -2 * (target_y - tol)),
                                ">=", 0)}
            ELSE {}
    IN UNION {cs(j) : j \in BinIdx(req)}

\* family 7, axle weights: rear = moment_x / wb, front = total_weight - rear,
\* both sides multiplied by 2 * wb (the sense turns when wb is negative)
AxleWeights(req) ==
    LET cs(j) ==
            LET b == BinAt(req, j) IN
            IF Truthy(b.wheelbase) /\ Truthy(b.axle_max_weight)
            THEN LET wb == Val(b.wheelbase)
                     max_axle == Val(b.axle_max_weight)
                     sense == IF wb > 0 THEN "<=" ELSE ">="
                 IN {Constraint(<<"axle_rear_limit_bin", j>>,
                                Moment(req, j, "x", 1),
                                sense, 2 * wb * max_axle),
                     Constraint(<<"axle_front_limit_bin", j>>,
                                TotalWeight(req, j, 2 * wb)
                                  \o Moment(req, j, "x", -1),
                                sense, 2 * wb * max_axle)}
            ELSE {}
    IN UNION {cs(j) : j \in BinIdx(req)}

\* every add_constraint call of build_model
Constraints(req) ==
    AssignedOnce(req) \cup UsageLink(req) \cup Containment(req)
        \cup NonOverlap(req) \cup WeightLimit(req)
        \cup Fragility(req) \cup LoadBearing(req)
        \cup CenterOfGravity(req) \cup AxleWeights(req)

\* set_objective(quicksum(self.bin_on[j] for j in range(num_bins)))
Objective(req) == [n \in 1 .. NumBins(req) |-> Term(1, <<BinOn(n - 1)>>)]

\* ConstrainedQuadraticModel()
EmptyModel == [variables |-> << >>, constraints |-> {}, objective |-> << >>]

\* ------------------------------------------------------------ feasibility

\* value of a term under a sample: coef * product of its variables
TermValue(t, s) ==
    IF Len(t.vars) = 1 THEN t.coef * s[t.vars[1]]
    ELSE t.coef * s[t.vars[1]] * s[t.vars[2]]

RECURSIVE SumTerms(_, _, _)
SumTerms(lhs, s, n) ==
    IF n = 0 THEN 0 ELSE SumTerms(lhs, s, n - 1) + TermValue(lhs[n], s)

\* a sample satisfies a constraint
Satisfied(c, s) ==
    LET v == SumTerms(c.lhs, s, Len(c.lhs))
    IN CASE c.sense = "<=" -> v <= c.rhs
         [] c.sense = ">=" -> v >= c.rhs
         [] OTHER -> v = c.rhs

\* the variables a constraint mentions
VarsOf(c) ==
    UNION {{c.lhs[n].vars[m] : m \in 1 .. Len(c.lhs[n].vars)}
              : n \in 1 .. Len(c.lhs)}

\* position, in declaration order, of the last variable a constraint mentions
LastVar(model, c) ==
    LET vs == VarsOf(c)
        at == {n \in 1 .. Len(model.variables) : model.variables[n].name \in vs}
    IN CHOOSE n \in at : \A m \in at : m <= n

\* sampleset.filter(lambda d: d.is_feasible) over every sample of the declared
\* domains.  The samples are built one variable at a time in declaration
\* order; Level[n] holds the assignments of the first n variables that satisfy
\* every constraint all of whose variables are among them, so a partial sample
\* is dropped as soon as a constraint it decides is violated.
FeasibleSamples(model) ==
    LET V == Len(model.variables)
        last == [c \in model.constraints |-> LastVar(model, c)]
        Level[n \in 0 .. V] ==
            IF n = 0 THEN {<< >>}
            ELSE LET v == model.variables[n]
                     decided == {c \in model.constraints : last[c] = n}
                     ok(p) == {val \in v.lb .. v.ub :
                                  \A c \in decided :
                                      Satisfied(c, p @@ (v.name :> val))}
                 IN UNION {{p @@ (v.name :> val) : val \in ok(p)}
                              : p \in Level[n - 1]}
    IN Level[V]

\* ------------------------------------------------------------ requests

\* a bin or item shape with at most one dimension larger than 1
Shapes(maxDim) ==
    {<<l, w, h>> \in {1, maxDim} \X {1, maxDim} \X {1, maxDim} :
        Cardinality({n \in 1 .. 3 : <<l, w, h>>[n] > 1}) <= 1}

\* unit items of weight 1 or MaxWeight: plain, fragile, or with a load limit
\* of 1; and one plain item of weight 1 as long as the longest bin
ItemCatalog ==
    {Item(1, 1, 1, wt, None, fr) : wt \in {1, MaxWeight}, fr \in BOOLEAN}
        \cup {Item(1, 1, 1, wt, Some(1), FALSE) : wt \in {1, MaxWeight}}
        \cup {Item(MaxDim, 1, 1, 1, None, FALSE)}

\* bins without balance parameters
BinCatalog ==
    {Bin(d[1], d[2], d[3], mw, None, None, None, None) :
        d \in Shapes(MaxDim), mw \in {MaxWeight, 2 * MaxWeight}}

\* one or two items; one bin, or a bin and a second one of full capacity
Requests ==
    {PackingRequest(its, bs) :
        its \in {<<a>> : a \in ItemCatalog}
                   \cup {<<a, b>> : a \in ItemCatalog, b \in ItemCatalog},
        bs \in {<<a>> : a \in BinCatalog}
                  \cup {<<a, b>> : a \in BinCatalog,
                                   b \in {c \in BinCatalog :
                                             c.max_weight = 2 * MaxWeight}}}

\* the bins of tests/test_balance.py, 2 wide and 2 high so that the 2x2x2
\* items only move along x: the axle truck (length 10) with every combination
\* of absent, zero and set axle parameters, and the balance truck (length 20)
\* with every combination of absent, zero and set balance parameters
BalanceBinCatalog ==
    {Bin(10, 2, 2, 100, amw, wb, None, None) :
        amw \in {None, Some(0), Some(40)}, wb \in {None, Some(0), Some(10)}}
      \cup
    {Bin(20, 2, 2, 100, None, None, cog, tol) :
        cog \in {None, Some(<<10, 1>>)}, tol \in {None, Some(0), Some(2)}}

\* the 60 kg load of test_axle_weights, the 50 kg and 5 kg boxes of
\* test_center_of_gravity
BalanceItemLists ==
    {<<Item(2, 2, 2, 60, None, FALSE)>>,
     <<Item(2, 2, 2, 50, None, FALSE), Item(2, 2, 2, 5, None, FALSE)>>}

\* a plain bin next to a truck, so that a truck can stay empty
SpareBin == Bin(2, 2, 2, 100, None, None, None, None)

BalanceRequests ==
    {PackingRequest(its, bs) :
        its \in BalanceItemLists,
        bs \in {<<a>> : a \in BalanceBinCatalog}
                  \cup {<<a, SpareBin>> : a \in BalanceBinCatalog}}

\* ------------------------------------------------------------ behaviour

NoResult == [status |-> "None", solution |-> None]

\* EnterpriseSolver(): an empty model, nothing built or solved
Init ==
    /\ request = NoRequest
    /\ cqm = EmptyModel
    /\ result = NoResult
    /\ pc = "constructed"

\* build_model(request)
BuildModel(req) ==
    /\ pc = "constructed"
    /\ request' = req
    /\ cqm' = [variables |-> Variables(req),
               constraints |-> cqm.constraints \cup Constraints(req),
               objective |-> Objective(req)]
    /\ pc' = "built"
    /\ UNCHANGED result

\* solve(): the sampler returns some samples over the declared domains; the
\* feasible ones are kept and one of them is returned, or "Infeasible" when
\* none is feasible (the sampler is heuristic and need not find one)
Solve ==
    /\ pc = "built"
    /\ \/ \E s \in FeasibleSamples(cqm) :
              result' = [status |-> "Optimal", solution |-> Some(s)]
       \/ result' = [status |-> "Infeasible", solution |-> None]
    /\ pc' = "solved"
    /\ UNCHANGED <<request, cqm>>

Next ==
    \/ \E req \in Requests : BuildModel(req)
    \/ Solve

Spec == Init /\ [][Next]_vars

NextBalance ==
    \/ \E req \in BalanceRequests : BuildModel(req)
    \/ Solve

\* the same solver, driven with the requests of the balance tests
SpecBalance == Init /\ [][NextBalance]_vars

\* build_model(request) on a solver that has built a model before: self.cqm is
\* the model created in __init__, so the constraints of the earlier call are
\* still in it.  The first add_constraint of the call is the one labeled
\* item_0_assigned_once; dimod refuses a label the model already holds with a
\* ValueError, which ends the call before anything is added.
BuildModelAgain(req) ==
    /\ pc \in {"built", "solved"}
    /\ request' = req
    /\ IF <<"item_assigned_once", 0>> \in {c.label : c \in cqm.constraints}
       THEN /\ cqm' = cqm
            /\ pc' = "raised"
       ELSE /\ cqm' = [variables |-> Variables(req),
                       constraints |-> cqm.constraints \cup Constraints(req),
                       objective |-> Objective(req)]
            /\ pc' = "rebuilt"
    /\ UNCHANGED result

NextTwice ==
    \/ \E req \in Requests : BuildModel(req)
    \/ BuildModelAgain(request)
    \/ Solve

\* the same solver, compiling its request a second time
SpecTwice == Init /\ [][NextTwice]_vars

\* ------------------------------------------------------------ reading a solution

\* solve() returned a feasible sample
Solved == pc = "solved" /\ result.status = "Optimal"

Sol == Val(result.solution)

InBin(s, i, j) == s[BinLoc(i, j)] = 1

\* low and high face of item i along each axis
XLo(s, i) == s[XVar(i)]
XHi(req, s, i) == s[XVar(i)] + ItemAt(req, i).length
YLo(s, i) == s[YVar(i)]
YHi(req, s, i) == s[YVar(i)] + ItemAt(req, i).width
ZLo(s, i) == s[ZVar(i)]
ZHi(req, s, i) == s[ZVar(i)] + ItemAt(req, i).height

\* at least one of the six separations holds between items i and k
Separated(req, s, i, k) ==
    \/ XHi(req, s, i) <= XLo(s, k)
    \/ XHi(req, s, k) <= XLo(s, i)
    \/ YHi(req, s, i) <= YLo(s, k)
    \/ YHi(req, s, k) <= YLo(s, i)
    \/ ZHi(req, s, i) <= ZLo(s, k)
    \/ ZHi(req, s, k) <= ZLo(s, i)

\* item i lies inside bin j from the low corner on all three axes
InsideBin(req, s, i, j) ==
    /\ 0 <= XLo(s, i) /\ XHi(req, s, i) <= BinAt(req, j).length
    /\ 0 <= YLo(s, i) /\ YHi(req, s, i) <= BinAt(req, j).width
    /\ 0 <= ZLo(s, i) /\ ZHi(req, s, i) <= BinAt(req, j).height

\* the x-y footprints of items i and k overlap with positive area
FootprintsOverlap(req, s, i, k) ==
    /\ XLo(s, i) < XHi(req, s, k) /\ XLo(s, k) < XHi(req, s, i)
    /\ YLo(s, i) < YHi(req, s, k) /\ YLo(s, k) < YHi(req, s, i)

\* item k is directly above item f
DirectlyAbove(req, s, k, f) ==
    FootprintsOverlap(req, s, k, f) /\ ZLo(s, k) >= ZHi(req, s, f)

\* total weight of a set of items
RECURSIVE WeightOf(_, _)
WeightOf(req, S) ==
    IF S = {} THEN 0
    ELSE LET i == CHOOSE i \in S : TRUE
         IN ItemAt(req, i).weight + WeightOf(req, S \ {i})

ItemsIn(req, s, j) == {i \in ItemIdx(req) : InBin(s, i, j)}

\* one bin and two items that fit neither side by side nor one behind the
\* other: inside the bin their footprints overlap, they can only be stacked
StackOnly(req) ==
    /\ NumBins(req) = 1
    /\ NumItems(req) = 2
    /\ ItemAt(req, 0).length + ItemAt(req, 1).length > BinAt(req, 0).length
    /\ ItemAt(req, 0).width + ItemAt(req, 1).width > BinAt(req, 0).width

\* item b is heavier than the load limit item a declares
Overloads(req, b, a) ==
    /\ ItemAt(req, a).max_stack_weight # None
    /\ ItemAt(req, b).weight > Val(ItemAt(req, a).max_stack_weight)

\* ------------------------------------------------------------ properties

\* C1: in every feasible sample returned for a compiled model, two distinct
\* items assigned to the same bin do not overlap: at least one of the six
\* separations (left, right, behind, front, below, above) holds between them.
NonOverlapInSameBin ==
    Solved =>
        \A p \in Pairs(request) : \A j \in BinIdx(request) :
            InBin(Sol, p[1], j) /\ InBin(Sol, p[2], j)
                => Separated(request, Sol, p[1], p[2])

\* two items share a bin in a returned sample
SameBinPairPacked ==
    /\ Solved
    /\ \E p \in Pairs(request) : \E j \in BinIdx(request) :
           InBin(Sol, p[1], j) /\ InBin(Sol, p[2], j)

\* the sample that leaves item i out of bin j and puts it at pos
Unassigned(i, j, pos) ==
    (BinLoc(i, j) :> 0) @@ (XVar(i) :> pos[1]) @@ (YVar(i) :> pos[2])
        @@ (ZVar(i) :> pos[3])

\* with bin_loc[i, j] = 0 the three containment constraints of (i, j) accept
\* every position at which item i is inside another bin
SlackWhenUnassigned ==
    LET D == 0 .. MaxBinDim(request)
    IN \A i \in ItemIdx(request) : \A j \in BinIdx(request) :
       \A other \in BinIdx(request) \ {j} : \A pos \in D \X D \X D :
           InsideBin(request, Unassigned(i, j, pos), i, other)
               => \A c \in cqm.constraints :
                      c.label \in {<<"contain_x", i, j>>, <<"contain_y", i, j>>,
                                   <<"contain_z", i, j>>}
                          => Satisfied(c, Unassigned(i, j, pos))

\* C3: in every feasible sample an item lies inside the bin it is assigned to,
\* from the low corner on all three axes; and the containment constraints of a
\* bin the item is not assigned to exclude no position inside its own bin.
ContainedInAssignedBin ==
    /\ Solved =>
           \A i \in ItemIdx(request) : \A j \in BinIdx(request) :
               InBin(Sol, i, j) => InsideBin(request, Sol, i, j)
    /\ pc = "built" => SlackWhenUnassigned

\* an item is packed at a position that does not fit the bin it is left out of
PackedOutsideOtherBin ==
    /\ Solved
    /\ \E i \in ItemIdx(request) : \E j, other \in BinIdx(request) :
           /\ InBin(Sol, i, j)
           /\ ~InBin(Sol, i, other)
           /\ ~InsideBin(request, Sol, i, other)

\* C6: in every feasible sample the weights of the items assigned to a bin add
\* up to at most the bin's max_weight.
WeightWithinCapacity ==
    Solved =>
        \A j \in BinIdx(request) :
            WeightOf(request, ItemsIn(request, Sol, j))
                <= BinAt(request, j).max_weight

\* a bin that could not carry all the items of the request carries some
CapacityMatters ==
    /\ Solved
    /\ \E j \in BinIdx(request) :
           /\ ItemsIn(request, Sol, j) # {}
           /\ WeightOf(request, ItemIdx(request)) > BinAt(request, j).max_weight

\* C7: in every feasible sample each item has exactly one item_i_in_bin_j
\* equal to 1, and bin_j_used is 1 for that bin.
ExactlyOneBinAndUsed ==
    Solved =>
        \A i \in ItemIdx(request) :
            /\ Cardinality({j \in BinIdx(request) : InBin(Sol, i, j)}) = 1
            /\ \A j \in BinIdx(request) :
                   InBin(Sol, i, j) => Sol[BinOn(j)] = 1

\* two items packed into two different bins
SplitOverTwoBins ==
    /\ Solved
    /\ NumBins(request) = 2
    /\ \E p \in Pairs(request) :
           InBin(Sol, p[1], 0) /\ InBin(Sol, p[2], 1)

\* C4: in every feasible sample no item is directly above a fragile item
\* (footprints overlapping with positive area, bottom at or above the fragile
\* item's top), whichever of the two has the lower index; and when the two
\* items can only be stacked, the fragile one has the strictly greater z.
FragileNeverBelow ==
    Solved =>
        \A f, k \in ItemIdx(request) :
            f # k /\ ItemAt(request, f).is_fragile
                => /\ ~DirectlyAbove(request, Sol, k, f)
                   /\ StackOnly(request) => ZLo(Sol, f) > ZLo(Sol, k)

\* a stack is returned whose second item is the fragile one
FragileSecondStacked ==
    /\ Solved
    /\ StackOnly(request)
    /\ ItemAt(request, 1).is_fragile
    /\ ~ItemAt(request, 0).is_fragile

\* item a cannot be put above item b either: b is fragile or a overloads b
CannotCarry(req, b, a) ==
    ItemAt(req, b).is_fragile \/ Overloads(req, a, b)

\* C5: in every feasible sample an item B heavier than the max_stack_weight of
\* an item A is never directly above A, whichever has the lower index; when
\* the two can only be stacked A is above B (z_A > z_B); and when they can
\* only be stacked and A may not be above B either, the model is infeasible.
WeakNeverBelowHeavy ==
    /\ Solved =>
           \A a, b \in ItemIdx(request) :
               a # b /\ Overloads(request, b, a)
                   => /\ ~DirectlyAbove(request, Sol, b, a)
                      /\ StackOnly(request) => ZLo(Sol, a) > ZLo(Sol, b)
    /\ ( /\ pc = "built"
         /\ StackOnly(request)
         /\ \E a, b \in ItemIdx(request) :
                /\ a # b
                /\ Overloads(request, b, a)
                /\ CannotCarry(request, b, a) )
           => FeasibleSamples(cqm) = {}

\* a stack is returned whose second item is the weak one, under the first
WeakSecondStacked ==
    /\ Solved
    /\ StackOnly(request)
    /\ Overloads(request, 0, 1)
    /\ ZLo(Sol, 1) > ZLo(Sol, 0)

\* a placement as a sample of the position variables alone
Placement(req, pos) ==
    [v \in UNION {{XVar(i), YVar(i), ZVar(i)} : i \in ItemIdx(req)} |->
        CASE v[1] = "x" -> pos[v[2]][1]
          [] v[1] = "y" -> pos[v[2]][2]
          [] OTHER -> pos[v[2]][3]]

\* a physically valid packing exists: each item in one bin and inside it,
\* items of the same bin not overlapping, bin weight limits respected, nothing
\* directly above a fragile item and nothing too heavy directly above an item
\* with a load limit in the same bin
Packable(req) ==
    LET D == 0 .. MaxBinDim(req)
    IN \E binOf \in [ItemIdx(req) -> BinIdx(req)] :
       \E pos \in [ItemIdx(req) -> D \X D \X D] :
          LET s == Placement(req, pos) IN
          /\ \A i \in ItemIdx(req) : InsideBin(req, s, i, binOf[i])
          /\ \A j \in BinIdx(req) :
                 WeightOf(req, {i \in ItemIdx(req) : binOf[i] = j})
                     <= BinAt(req, j).max_weight
          /\ \A i, k \in ItemIdx(req) :
                 i # k /\ binOf[i] = binOf[k]
                     => /\ Separated(req, s, i, k)
                        /\ ItemAt(req, i).is_fragile
                               => ~DirectlyAbove(req, s, k, i)
                        /\ Overloads(req, k, i)
                               => ~DirectlyAbove(req, s, k, i)

\* C2: the unconditional separation_required constraint never causes false
\* infeasibility: whenever a physically valid packing of the request exists,
\* the compiled model has a feasible sample.
SeparationNeverFalselyInfeasible ==
    pc = "built" /\ Packable(request) => FeasibleSamples(cqm) # {}

\* twice the weighted sum of the geometric centres of a set of items along an
\* axis: sum of w_i * (2 * pos_i + extent_i)
RECURSIVE Moment2(_, _, _, _)
Moment2(req, s, S, axis) ==
    IF S = {} THEN 0
    ELSE LET i == CHOOSE i \in S : TRUE
             c2 == IF axis = "x" THEN XLo(s, i) + XHi(req, s, i)
                   ELSE YLo(s, i) + YHi(req, s, i)
         IN ItemAt(req, i).weight * c2 + Moment2(req, s, S \ {i}, axis)

\* the weighted mean centre of the items S lies within tol of target on an axis
MeanWithin(req, s, S, axis, target, tol) ==
    LET W == WeightOf(req, S)
        m2 == Moment2(req, s, S, axis)
    IN 2 * (target - tol) * W <= m2 /\ m2 <= 2 * (target + tol) * W

Labels == {c.label : c \in cqm.constraints}

CogLabels(j) ==
    {<<"cog_x_upper_bin", j>>, <<"cog_x_lower_bin", j>>,
     <<"cog_y_upper_bin", j>>, <<"cog_y_lower_bin", j>>}

AxleLabels(j) == {<<"axle_rear_limit_bin", j>>, <<"axle_front_limit_bin", j>>}

\* every sample over the variables of constraint c that assigns no item to bin j
EmptyBinSamples(req, c, j) ==
    LET bl == {BinLoc(i, j) : i \in ItemIdx(req)}
        zero == [v \in bl |-> 0]
    IN {zero @@ f : f \in [VarsOf(c) \ bl -> 0 .. MaxBinDim(req)]}

\* C8: in every feasible sample, for every bin that declares
\* center_of_gravity_target and cog_tolerance and holds at least one item, the
\* weight-weighted mean of the item centres is within the tolerance of the
\* target on x and on y; and a bin with no item satisfies its CoG constraints
\* for any positions.
CenterOfGravityWithinTolerance ==
    /\ Solved =>
           \A j \in BinIdx(request) :
               LET b == BinAt(request, j)
                   S == ItemsIn(request, Sol, j)
               IN /\ b.center_of_gravity_target # None
                  /\ b.cog_tolerance # None
                  /\ S # {}
                  => /\ MeanWithin(request, Sol, S, "x",
                                   Val(b.center_of_gravity_target)[1],
                                   Val(b.cog_tolerance))
                     /\ MeanWithin(request, Sol, S, "y",
                                   Val(b.center_of_gravity_target)[2],
                                   Val(b.cog_tolerance))
    /\ pc = "built" =>
           \A j \in BinIdx(request) : \A c \in cqm.constraints :
               c.label \in CogLabels(j)
                   => \A s \in EmptyBinSamples(request, c, j) : Satisfied(c, s)

\* rear = moment_x / wb and front = total - rear are both at most maxAxle
AxleLoadsWithin(req, s, S, wb, maxAxle) ==
    LET W == WeightOf(req, S)
        m2 == Moment2(req, s, S, "x")
    IN IF wb > 0
       THEN m2 <= 2 * wb * maxAxle /\ 2 * wb * W - m2 <= 2 * wb * maxAxle
       ELSE m2 >= 2 * wb * maxAxle /\ 2 * wb * W - m2 >= 2 * wb * maxAxle

\* C9: in every feasible sample, for every bin that declares wheelbase and
\* axle_max_weight, the rear load sum(w_i * centre_x_i) / wb and the front load
\* (total weight - rear load) of the items in the bin are at most
\* axle_max_weight; for one 60 kg item of length 2 with wb = 10 and a limit of
\* 40 the item's centre x lies in [10/3, 20/3].
AxleLoadsWithinLimit ==
    Solved =>
        \A j \in BinIdx(request) :
            LET b == BinAt(request, j)
                S == ItemsIn(request, Sol, j)
            IN /\ b.wheelbase # None
               /\ b.axle_max_weight # None
               /\ Val(b.wheelbase) # 0
               => /\ AxleLoadsWithin(request, Sol, S, Val(b.wheelbase),
                                     Val(b.axle_max_weight))
                  /\ ( /\ NumItems(request) = 1
                       /\ S = {0}
                       /\ ItemAt(request, 0).weight = 60
                       /\ ItemAt(request, 0).length = 2
                       /\ b.wheelbase = Some(10)
                       /\ b.axle_max_weight = Some(40) )
                       => /\ 20 <= 3 * (XLo(Sol, 0) + XHi(request, Sol, 0))
                          /\ 3 * (XLo(Sol, 0) + XHi(request, Sol, 0)) <= 40

\* the request with the balance parameters of every bin removed
WithoutBalance(req) ==
    PackingRequest(req.items,
        [n \in 1 .. NumBins(req) |->
            Bin(req.bins[n].length, req.bins[n].width, req.bins[n].height,
                req.bins[n].max_weight, None, None, None, None)])

\* C10: presence of the optional bin fields is the toggle: the four CoG
\* constraints of bin j are emitted exactly when center_of_gravity_target and
\* cog_tolerance are both set, whatever values they hold (a tolerance of 0
\* included), the two axle constraints exactly when wheelbase and
\* axle_max_weight are both set, and the other constraints are those of the
\* request without balance fields.
BalanceFieldsToggle ==
    pc # "constructed" =>
        /\ \A j \in BinIdx(request) :
               LET b == BinAt(request, j)
                   cogSet == b.center_of_gravity_target # None
                                 /\ b.cog_tolerance # None
                   axleSet == b.wheelbase # None /\ b.axle_max_weight # None
               IN /\ cogSet => CogLabels(j) \subseteq Labels
                  /\ ~cogSet => CogLabels(j) \cap Labels = {}
                  /\ axleSet => AxleLabels(j) \subseteq Labels
                  /\ ~axleSet => AxleLabels(j) \cap Labels = {}
        /\ {c \in cqm.constraints :
               \A j \in BinIdx(request) :
                   c.label \notin CogLabels(j) \cup AxleLabels(j)}
             = Constraints(WithoutBalance(request))

\* the model a solver without earlier calls compiles from a request
FreshModel(req) ==
    [variables |-> Variables(req),
     constraints |-> Constraints(req),
     objective |-> Objective(req)]

\* C11: compilation is idempotent and has no hidden state: a second
\* build_model call with the same request does not fail, and the model it
\* yields has the variable domains and the labeled constraints of the first,
\* each label once, with nothing added from or depending on the first call.
CompilationIdempotent ==
    /\ pc # "raised"
    /\ pc = "rebuilt" =>
           /\ cqm = FreshModel(request)
           /\ \A c, d \in cqm.constraints : c.label = d.label => c = d

\* the request of test_center_of_gravity: one bin of length 20 with CoG target
\* x = 10 and tolerance 2, a 50 kg item and a 5 kg item, each 2x2x2
CogScenario(req) ==
    /\ NumBins(req) = 1
    /\ NumItems(req) = 2
    /\ BinAt(req, 0).length = 20
    /\ BinAt(req, 0).center_of_gravity_target # None
    /\ Val(BinAt(req, 0).center_of_gravity_target)[1] = 10
    /\ BinAt(req, 0).cog_tolerance = Some(2)
    /\ ItemAt(req, 0).weight = 50
    /\ ItemAt(req, 1).weight = 5
    /\ \A i \in ItemIdx(req) :
           /\ ItemAt(req, i).length = 2
           /\ ItemAt(req, i).width = 2
           /\ ItemAt(req, i).height = 2

\* C12 as stated: in the centre-of-gravity scenario every feasible sample
\* places the geometric centre x_0 + 1 of the 50 kg item between 8 and 12.
HeavyCentreWithinTolerance ==
    Solved /\ CogScenario(request) =>
        /\ 16 <= XLo(Sol, 0) + XHi(request, Sol, 0)
        /\ XLo(Sol, 0) + XHi(request, Sol, 0) <= 24

\* C12 as amended: in the centre-of-gravity scenario every feasible sample
\* places the weight-weighted mean of the two item centres between 8 and 12,
\* which keeps the centre of the 50 kg item between 6.9 and 13.1.
MeanCentreWithinTolerance ==
    Solved /\ CogScenario(request) =>
        /\ MeanWithin(request, Sol, {0, 1}, "x", 10, 2)
        /\ 138 <= 10 * (XLo(Sol, 0) + XHi(request, Sol, 0))
        /\ 10 * (XLo(Sol, 0) + XHi(request, Sol, 0)) <= 262

\* a sample of the scenario with the 50 kg item's centre outside [8, 12]
HeavyCentreOffTarget ==
    /\ Solved
    /\ CogScenario(request)
    /\ \/ XLo(Sol, 0) + XHi(request, Sol, 0) < 16
       \/ XLo(Sol, 0) + XHi(request, Sol, 0) > 24

====
